---- MODULE Spec2Model ----
(***************************************************************************)
(* The code-operated lock of src/state.py (State pattern): a Lock context   *)
(* holding two secrets, a failed-attempt counter and the active LockState   *)
(* object, and the three concrete states that handle an entered code.       *)
(*                                                                          *)
(* Python values are modelled as records: a value passed as a code is       *)
(* [type, chars] where chars is the sequence of its characters when it is a *)
(* str; a state object is [cls, lock] where lock is its back-reference.     *)
(*                                                                          *)
(* Further down: two locks and the state objects they share (src/state.py), *)
(* the contact book and its history of snapshots (src/memento.py), and the  *)
(* bank account with its balance commands (src/command.py).                 *)
(***************************************************************************)
EXTENDS Integers, Sequences, FiniteSets, TLC

VARIABLES
    lock,     \* the Lock object, or NoLock while none has been constructed
    last,     \* the last call made: its arguments, the lock before it, what it raised and printed
    streak,   \* (state, counter) after each of the latest consecutive non-primary entries that began at Locked/0
    errBase,  \* the lock as it was before the current run of non-supercode calls made in ErrorState
    errRun,   \* the length of that run (saturating at MaxErrRun)
    rejected, \* the entries refused while Locked since the last unlock or recovery (saturating at MaxRejected)
    hist,     \* the codes entered so far, in the runs that record them
    thr,      \* per calling thread: where it is in enter_code, its code, its status, the counter it read
    base,     \* the lock when the two threads' current calls began
    mutexed,  \* whether the callers wrap each enter_code call in one mutex
    holder,   \* the thread holding that mutex, or 0
    rounds,   \* the pairs of concurrent calls begun so far
    pair,     \* two Lock objects A and B, each holding a reference to its active state object
    heap,     \* the LockState objects those two locks refer to: class and back-reference
    plast,    \* the last call made on A or B: the lock called, the code, the locks and objects before it
    lists,    \* src/memento.py: the list objects, by identity: the contacts each holds, or Free
    book,     \* the list object that ContactBook._contacts refers to
    snapshots,\* History._snapshots: the list object of each memento, oldest first
    saved,    \* the contacts the book held at each backup that is still on the stack
    blast,    \* the last call on the book or its history: what it returned and raised; of an undo, the book and the backups before it
    balance,  \* src/command.py: BankAccount.__balance, in cents
    alast     \* the last call on the account: the amount, the balance before it, what it raised

concVars == <<thr, base, mutexed, holder, rounds>>

sharedVars == <<pair, heap, plast>>

\* the variables of the runs that are not about the one lock
bookVars == <<lists, book, snapshots, saved, blast>>

accountVars == <<balance, alast>>

otherVars == <<sharedVars, bookVars, accountVars>>

vars == <<lock, last, streak, errBase, errRun, rejected, hist, thr, base, mutexed, holder, rounds,
          pair, heap, plast, lists, book, snapshots, saved, blast, balance, alast>>

----------------------------------------------------------------------------
(* Bounds of the model *)

\* the longest code of digits that is tried as a secret or as an entry
MaxInputLen == 13

\* the longest run of non-supercode calls in ErrorState that is counted
MaxErrRun == 3

\* the most refused entries that are counted
MaxRejected == 4

\* the most calls of a recorded run
MaxHist == 5

\* the highest counter from which a caller still calls increase_failed_attempts
MaxCounter == 4

\* the most pairs of concurrent calls of a run
MaxRounds == 2

\* the most contacts a book is filled with
MaxContacts == 2

\* the most snapshots that are kept
MaxSnapshots == 2

\* the highest balance, in cents, at which a deposit is still made
MaxBalance == 5

\* the identities of the list objects in use at one time: the book's list, one
\* per snapshot, and the one being made
ListIds == 0..(MaxSnapshots + 1)

----------------------------------------------------------------------------
(* Python strings *)

\* characters for which str.isdigit() holds: the ASCII digits, and digits
\* outside ASCII such as SUPERSCRIPT TWO (U+00B2)
AsciiDigits == {"0", "1", "2", "3", "4", "5", "6", "7", "8", "9"}
OtherDigits == {"SUPERSCRIPT TWO"}
Whitespace == {" ", "\t", "\n"}

Str(s) == [type |-> "str", chars |-> s]
NotAStr == [type |-> "int", chars |-> <<>>]

isinstance_str(v) == v.type = "str"

\* c * n
Rep(c, n) == [i \in 1..n |-> c]

\* s.strip(): s without its leading and trailing whitespace
RECURSIVE lstrip(_)
lstrip(s) == IF s # <<>> /\ Head(s) \in Whitespace THEN lstrip(Tail(s)) ELSE s
RECURSIVE rstrip(_)
rstrip(s) ==
    IF s # <<>> /\ s[Len(s)] \in Whitespace THEN rstrip(SubSeq(s, 1, Len(s) - 1)) ELSE s
strip(s) == rstrip(lstrip(s))

\* s.isdigit(): at least one character, and every character a digit
isdigit(s) == Len(s) > 0 /\ \A i \in 1..Len(s) : s[i] \in AsciiDigits \cup OtherDigits

\* bool(s) of a str
truthy(s) == s # <<>>

----------------------------------------------------------------------------
(* Status, LockState *)

CORRECTCODE == "CORRECTCODE"
SUPERCODE == "SUPERCODE"
WRONGCODE == "WRONGCODE"

StateClasses == {"LockedState", "UnlockedState", "ErrorState"}

\* LockState.__init__: a state object of class cls, with no Lock context yet
NewState(cls) == [cls |-> cls, lock |-> "None"]

\* an object that is no LockState
NotAState == [cls |-> "object", lock |-> "None"]

isinstance_LockState(st) == st.cls \in StateClasses

\* the outcome of a method: the lock after it, what it printed, what it raised
Outcome(lk, out, exc) == [lock |-> lk, out |-> out, exc |-> exc]

----------------------------------------------------------------------------
(* Lock *)

\* mutant: the limit is one too low
_max_failed_attempts_lowered == 3 - 1

_max_failed_attempts == 3

MinCodeLen == 8
CodeLenLimit == 13

NoLock == [made |-> FALSE]

\* Lock._validate_code
_validate_code(code) ==
    isdigit(code.chars) /\ MinCodeLen <= Len(code.chars) /\ Len(code.chars) < CodeLenLimit

\* mutant: the entered code is compared without its surrounding whitespace
_check_status_stripping(lk, code) ==
    IF lk.code = Str(strip(code.chars)) THEN CORRECTCODE
    ELSE IF lk.supercode = Str(strip(code.chars)) THEN SUPERCODE
    ELSE WRONGCODE

\* Lock._check_status
_check_status(lk, code) ==
    IF lk.code = code THEN CORRECTCODE
    ELSE IF lk.supercode = code THEN SUPERCODE
    ELSE WRONGCODE

\* mutant: the new state is not given its Lock context
set_state_without_context(lk, st) ==
    IF ~isinstance_LockState(st)
    THEN Outcome(lk, <<>>, "TypeError")
    ELSE Outcome([lk EXCEPT !.state = st], <<>>, "none")

\* Lock.set_state, with the LockState.lock setter it calls
set_state(lk, st) ==
    IF ~isinstance_LockState(st)
    THEN Outcome(lk, <<>>, "TypeError")
    ELSE Outcome([lk EXCEPT !.state = [st EXCEPT !.lock = "self"]], <<>>, "none")

\* mutant: the failed attempt is not counted
increase_failed_attempts_forgotten(lk) == lk

increase_failed_attempts(lk) == [lk EXCEPT !.failed_attempts = @ + 1]

\* mutant: the counter is not reset
reset_failed_attempts_forgotten(lk) == lk

reset_failed_attempts(lk) == [lk EXCEPT !.failed_attempts = 0]

\* mutant: the limit is taken as reached one attempt early
is_limit_exceeded_early(lk) == lk.failed_attempts >= _max_failed_attempts - 1

\* mutant: > for >=
is_limit_exceeded_strictly(lk) == lk.failed_attempts > _max_failed_attempts

is_limit_exceeded(lk) == lk.failed_attempts >= _max_failed_attempts

\* LockState._check_context: TRUE when it raises
_check_context_raises(st) == st.lock = "None"

----------------------------------------------------------------------------
(* The concrete states *)

\* mutant: the supercode is told apart from a wrong code, and is not counted
LockedState_on_code_entered_sparing_supercode(lk, status) ==
    IF _check_context_raises(lk.state) THEN Outcome(lk, <<>>, "RuntimeError")
    ELSE IF status = CORRECTCODE
    THEN Outcome(set_state(reset_failed_attempts(lk), NewState("UnlockedState")).lock,
                 <<"Lock is unlocked">>, "none")
    ELSE IF status = SUPERCODE
    THEN Outcome(lk, <<"Incorrect code. Lock remains closed.">>, "none")
    ELSE LET lk1 == increase_failed_attempts(lk)
         IN  IF is_limit_exceeded(lk1)
             THEN Outcome(set_state(lk1, NewState("ErrorState")).lock,
                          <<"Incorrect code. Lock remains closed.",
                            "Lock is in error state. Supercode required to reset.">>,
                          "none")
             ELSE Outcome(lk1, <<"Incorrect code. Lock remains closed.">>, "none")

\* mutant: the lockout is reported before the incorrect code
LockedState_on_code_entered_lockout_first(lk, status) ==
    IF _check_context_raises(lk.state) THEN Outcome(lk, <<>>, "RuntimeError")
    ELSE IF status = CORRECTCODE
    THEN Outcome(set_state(reset_failed_attempts(lk), NewState("UnlockedState")).lock,
                 <<"Lock is unlocked">>, "none")
    ELSE LET lk1 == increase_failed_attempts(lk)
         IN  IF is_limit_exceeded(lk1)
             THEN Outcome(set_state(lk1, NewState("ErrorState")).lock,
                          <<"Lock is in error state. Supercode required to reset.",
                            "Incorrect code. Lock remains closed.">>,
                          "none")
             ELSE Outcome(lk1, <<"Incorrect code. Lock remains closed.">>, "none")

LockedState_on_code_entered(lk, status) ==
    IF _check_context_raises(lk.state) THEN Outcome(lk, <<>>, "RuntimeError")
    ELSE IF status = CORRECTCODE
    THEN Outcome(set_state(reset_failed_attempts(lk), NewState("UnlockedState")).lock,
                 <<"Lock is unlocked">>, "none")
    ELSE LET lk1 == increase_failed_attempts(lk)
         IN  IF is_limit_exceeded(lk1)
             THEN Outcome(set_state(lk1, NewState("ErrorState")).lock,
                          <<"Incorrect code. Lock remains closed.",
                            "Lock is in error state. Supercode required to reset.">>,
                          "none")
             ELSE Outcome(lk1, <<"Incorrect code. Lock remains closed.">>, "none")

\* mutant: either secret locks the lock again
UnlockedState_on_code_entered_any_secret(lk, status) ==
    IF _check_context_raises(lk.state) THEN Outcome(lk, <<>>, "RuntimeError")
    ELSE IF status # WRONGCODE
    THEN Outcome(set_state(lk, NewState("LockedState")).lock, <<"Lock is locked">>, "none")
    ELSE Outcome(lk, <<"Incorrect code. Lock remains unlocked.">>, "none")

UnlockedState_on_code_entered(lk, status) ==
    IF _check_context_raises(lk.state) THEN Outcome(lk, <<>>, "RuntimeError")
    ELSE IF status = CORRECTCODE
    THEN Outcome(set_state(lk, NewState("LockedState")).lock, <<"Lock is locked">>, "none")
    ELSE Outcome(lk, <<"Incorrect code. Lock remains unlocked.">>, "none")

\* mutant: either secret clears the lockout
ErrorState_on_code_entered_any_secret(lk, status) ==
    IF _check_context_raises(lk.state) THEN Outcome(lk, <<>>, "RuntimeError")
    ELSE IF status # WRONGCODE
    THEN Outcome(set_state(reset_failed_attempts(lk), NewState("LockedState")).lock,
                 <<"Lock is locked. Use code to unlock.">>, "none")
    ELSE Outcome(lk, <<"Incorrect supercode. Lock remains in error state.">>, "none")

\* mutant: a refused code is counted during the lockout too
ErrorState_on_code_entered_counting(lk, status) ==
    IF _check_context_raises(lk.state) THEN Outcome(lk, <<>>, "RuntimeError")
    ELSE IF status = SUPERCODE
    THEN Outcome(set_state(reset_failed_attempts(lk), NewState("LockedState")).lock,
                 <<"Lock is locked. Use code to unlock.">>, "none")
    ELSE Outcome(increase_failed_attempts(lk),
                 <<"Incorrect supercode. Lock remains in error state.">>, "none")

ErrorState_on_code_entered(lk, status) ==
    IF _check_context_raises(lk.state) THEN Outcome(lk, <<>>, "RuntimeError")
    ELSE IF status = SUPERCODE
    THEN Outcome(set_state(reset_failed_attempts(lk), NewState("LockedState")).lock,
                 <<"Lock is locked. Use code to unlock.">>, "none")
    ELSE Outcome(lk, <<"Incorrect supercode. Lock remains in error state.">>, "none")

\* self.__state.on_code_entered(status): dispatch on the class of the active state
on_code_entered(lk, status) ==
    CASE lk.state.cls = "LockedState" -> LockedState_on_code_entered(lk, status)
      [] lk.state.cls = "UnlockedState" -> UnlockedState_on_code_entered(lk, status)
      [] lk.state.cls = "ErrorState" -> ErrorState_on_code_entered(lk, status)

----------------------------------------------------------------------------
(* Lock.__init__ and Lock.enter_code *)

\* mutant: the lock always starts locked, whatever state is passed
Lock_init_always_locked(code, supercode, state) ==
    IF ~isinstance_str(code) THEN Outcome(NoLock, <<>>, "TypeError")
    ELSE IF ~isinstance_str(supercode) THEN Outcome(NoLock, <<>>, "TypeError")
    ELSE IF ~_validate_code(code) THEN Outcome(NoLock, <<>>, "ValueError")
    ELSE IF ~_validate_code(supercode) THEN Outcome(NoLock, <<>>, "ValueError")
    ELSE IF code = supercode THEN Outcome(NoLock, <<>>, "ValueError")
    ELSE LET lk0 == [made |-> TRUE, code |-> code, supercode |-> supercode,
                     state |-> NotAState, failed_attempts |-> 0]
             r == set_state(lk0, NewState("LockedState"))
         IN  IF ~isinstance_LockState(state) THEN Outcome(NoLock, <<>>, "TypeError")
             ELSE Outcome([r.lock EXCEPT !.failed_attempts = 0], <<>>, "none")

\* mutant: the two secrets are not compared
Lock_init_without_comparison(code, supercode, state) ==
    IF ~isinstance_str(code) THEN Outcome(NoLock, <<>>, "TypeError")
    ELSE IF ~isinstance_str(supercode) THEN Outcome(NoLock, <<>>, "TypeError")
    ELSE IF ~_validate_code(code) THEN Outcome(NoLock, <<>>, "ValueError")
    ELSE IF ~_validate_code(supercode) THEN Outcome(NoLock, <<>>, "ValueError")
    ELSE LET lk0 == [made |-> TRUE, code |-> code, supercode |-> supercode,
                     state |-> NotAState, failed_attempts |-> 0]
             r == set_state(lk0, state)
         IN  IF r.exc # "none" THEN Outcome(NoLock, <<>>, r.exc)
             ELSE Outcome([r.lock EXCEPT !.failed_attempts = 0], <<>>, "none")

Lock_init(code, supercode, state) ==
    IF ~isinstance_str(code) THEN Outcome(NoLock, <<>>, "TypeError")
    ELSE IF ~isinstance_str(supercode) THEN Outcome(NoLock, <<>>, "TypeError")
    ELSE IF ~_validate_code(code) THEN Outcome(NoLock, <<>>, "ValueError")
    ELSE IF ~_validate_code(supercode) THEN Outcome(NoLock, <<>>, "ValueError")
    ELSE IF code = supercode THEN Outcome(NoLock, <<>>, "ValueError")
    ELSE LET lk0 == [made |-> TRUE, code |-> code, supercode |-> supercode,
                     state |-> NotAState, failed_attempts |-> 0]
             r == set_state(lk0, state)
         IN  IF r.exc # "none" THEN Outcome(NoLock, <<>>, r.exc)
             ELSE Outcome([r.lock EXCEPT !.failed_attempts = 0], <<>>, "none")

enter_code(lk, code) ==
    IF ~isinstance_str(code) THEN Outcome(lk, <<>>, "TypeError")
    ELSE IF ~truthy(strip(code.chars)) THEN Outcome(lk, <<>>, "ValueError")
    ELSE on_code_entered(lk, _check_status(lk, code))

----------------------------------------------------------------------------
(* Inputs *)

DIGITS == <<"1", "2", "3", "4", "5", "6", "7", "8", "9", "0">>

\* "1234567890123..."[:n]
DigitRun(n) == [i \in 1..n |-> DIGITS[((i - 1) % 10) + 1]]

\* the values tried as entered codes
CodeArgs ==
    {Str(DigitRun(n)) : n \in 0..MaxInputLen}
    \cup {Str(Rep("5", 8)), Str(Rep("0", 8)),
          Str(Rep("SUPERSCRIPT TWO", 8)),
          Str(DigitRun(7) \o <<"a">>),
          Str(<<" ">> \o DigitRun(8)),
          Str(<<" ", "\t", "\n">>),
          NotAStr}

\* the values tried as secrets: codes at and around both ends of the accepted
\* lengths, and codes that are not digits, not ASCII, empty or no str at all
SecretArgs ==
    {Str(DigitRun(n)) : n \in {0, MinCodeLen - 1, MinCodeLen, CodeLenLimit - 1, CodeLenLimit}}
    \cup {Str(Rep("5", 8)),
          Str(Rep("SUPERSCRIPT TWO", 8)),
          Str(DigitRun(7) \o <<"a">>),
          NotAStr}

StateArgs == {NewState(c) : c \in StateClasses} \cup {NotAState}

----------------------------------------------------------------------------
(* State machine *)

NoCall == [op |-> "none", code |-> NotAStr, supercode |-> NotAStr, state |-> NotAState,
           pre |-> NoLock, exc |-> "none", out |-> <<>>]

Threads == {1, 2}

Idle == [pc |-> "idle", code |-> NotAStr, status |-> WRONGCODE, tmp |-> 0]

\* the names of two Lock objects
LockNames == {"A", "B"}

\* the LockState objects they can refer to: the one passed to each constructor,
\* and the one that set_state was last called with on each lock
InitialObject(x) == <<"passed to", x>>
OwnObject(x) == <<"set on", x>>
Objects == {InitialObject(x) : x \in LockNames} \cup {OwnObject(x) : x \in LockNames}

NoPairCall == [op |-> "none", on |-> "none", code |-> NotAStr, pre |-> <<>>, preheap |-> <<>>,
               exc |-> "none", out |-> <<>>]

\* no second lock, and no state object shared
NoPair ==
    /\ pair = [x \in LockNames |-> NoLock]
    /\ heap = [o \in Objects |-> NotAState]
    /\ plast = NoPairCall

\* a list object that is not in use
Free == "free"

NoBookCall == [op |-> "none", ret |-> "None", exc |-> "none", pre |-> <<>>, presaved |-> <<>>]

\* book = ContactBook(); history = History(book)
NewBook ==
    /\ lists = [i \in ListIds |-> IF i = 0 THEN <<>> ELSE Free]
    /\ book = 0
    /\ snapshots = <<>>
    /\ saved = <<>>
    /\ blast = NoBookCall

NoAccountCall == [op |-> "none", amount |-> [type |-> "NoneType", val |-> 0], pre |-> 0,
                  exc |-> "none"]

\* account = BankAccount()
NewAccount ==
    /\ balance = 0
    /\ alast = NoAccountCall

\* the objects of the other programs, as they are made
NoOthers ==
    /\ NoPair
    /\ NewBook
    /\ NewAccount

\* no thread is calling
NoThreads ==
    /\ thr = [t \in Threads |-> Idle]
    /\ base = NoLock
    /\ mutexed = FALSE
    /\ holder = 0
    /\ rounds = 0

Init ==
    /\ NoThreads
    /\ NoOthers
    /\ lock = NoLock
    /\ last = NoCall
    /\ streak = <<>>
    /\ errBase = NoLock
    /\ errRun = 0
    /\ rejected = 0
    /\ hist = <<>>

\* lock = Lock(code, supercode, state): the one constructor call of a run
Construct ==
    /\ last.op = "none"
    /\ \E code \in SecretArgs, supercode \in SecretArgs, state \in StateArgs :
          LET r == Lock_init(code, supercode, state)
          IN  /\ lock' = r.lock
              /\ last' = [op |-> "init", code |-> code, supercode |-> supercode,
                          state |-> state, pre |-> lock, exc |-> r.exc, out |-> r.out]
    /\ UNCHANGED <<streak, errBase, errRun, rejected, hist>>
    /\ UNCHANGED concVars
    /\ UNCHANGED otherVars

Post(lk) == <<lk.state.cls, lk.failed_attempts>>

\* lock.enter_code(code)
EnterCodeOf(code) ==
          LET r == enter_code(lock, code)
          IN  /\ lock' = r.lock
              /\ last' = [op |-> "enter_code", code |-> code, supercode |-> NotAStr,
                          state |-> NotAState, pre |-> lock, exc |-> r.exc, out |-> r.out]
              /\ streak' =
                    IF r.exc # "none" \/ code = lock.code THEN <<>>
                    ELSE IF Post(lock) = <<"LockedState", 0>> THEN <<Post(r.lock)>>
                    ELSE IF streak # <<>> /\ Len(streak) < _max_failed_attempts
                         THEN Append(streak, Post(r.lock))
                    ELSE <<>>
              /\ IF lock.state.cls = "ErrorState" /\ code # lock.supercode
                 THEN /\ errBase' = IF errRun = 0 THEN lock ELSE errBase
                      /\ errRun' = IF errRun < MaxErrRun THEN errRun + 1 ELSE errRun
                 ELSE /\ errBase' = NoLock
                      /\ errRun' = 0
              /\ rejected' =
                    IF r.exc # "none" THEN rejected
                    ELSE CASE lock.state.cls = "LockedState" ->
                                 IF code = lock.code THEN 0
                                 ELSE IF rejected < MaxRejected THEN rejected + 1 ELSE rejected
                           [] lock.state.cls = "UnlockedState" -> rejected
                           [] lock.state.cls = "ErrorState" ->
                                 IF code = lock.supercode THEN 0 ELSE rejected

\* lock.enter_code(code), for any of the values tried
EnterCode ==
    /\ lock.made
    /\ \E code \in CodeArgs : EnterCodeOf(code)
    /\ UNCHANGED hist
    /\ UNCHANGED concVars
    /\ UNCHANGED otherVars

Next == Construct \/ EnterCode

Spec == Init /\ [][Next]_vars

----------------------------------------------------------------------------
(* Recorded runs: the lock of the worked example, and the codes entered *)

ExamplePrimary == Str(<<"1", "2", "3", "4", "5", "6", "7", "8">>)
ExampleSupercode == Str(<<"8", "7", "6", "5", "4", "3", "2", "1">>)

TraceCodes ==
    {ExamplePrimary, ExampleSupercode,
     Str(Rep("0", 8)), Str(Rep("1", 8)), Str(Rep("2", 8)), Str(<<>>)}

InitTrace ==
    /\ NoThreads
    /\ NoOthers
    /\ lock = Lock_init(ExamplePrimary, ExampleSupercode, NewState("LockedState")).lock
    /\ last = [op |-> "init", code |-> ExamplePrimary, supercode |-> ExampleSupercode,
               state |-> NewState("LockedState"), pre |-> NoLock, exc |-> "none", out |-> <<>>]
    /\ streak = <<>>
    /\ errBase = NoLock
    /\ errRun = 0
    /\ rejected = 0
    /\ hist = <<>>

\* lock.enter_code(code), recorded
TraceEnter ==
    /\ lock.made
    /\ Len(hist) < MaxHist
    /\ \E code \in TraceCodes :
          /\ EnterCodeOf(code)
          /\ hist' = Append(hist, code)
    /\ UNCHANGED concVars
    /\ UNCHANGED otherVars

NextTrace == TraceEnter

SpecTrace == InitTrace /\ [][NextTrace]_vars

----------------------------------------------------------------------------
(* A caller that uses every public method of Lock, not only enter_code *)

MainPrimary == Str(<<"1", "2", "3", "4", "5", "6", "7", "8">>)
MainSupercode == Str(Rep("5", 8))

\* the values this caller enters: both secrets, a wrong code, a blank one, no str
CallerCodes == {MainPrimary, MainSupercode, Str(Rep("0", 8)), Str(<<" ">>), NotAStr}

\* the record of a call other than the constructor's
Call(op, code, state, exc) ==
    [op |-> op, code |-> code, supercode |-> NotAStr, state |-> state,
     pre |-> lock, exc |-> exc, out |-> <<>>]

\* lock = Lock('12345678', "55555555", LockedState())
InitCaller ==
    /\ NoThreads
    /\ NoOthers
    /\ lock = Lock_init(MainPrimary, MainSupercode, NewState("LockedState")).lock
    /\ last = [op |-> "init", code |-> MainPrimary, supercode |-> MainSupercode,
               state |-> NewState("LockedState"), pre |-> NoLock, exc |-> "none", out |-> <<>>]
    /\ streak = <<>>
    /\ errBase = NoLock
    /\ errRun = 0
    /\ rejected = 0
    /\ hist = <<>>

\* lock.set_state(state)
CallSetState ==
    /\ lock.made
    /\ \E state \in StateArgs :
          LET r == set_state(lock, state)
          IN  /\ lock' = r.lock
              /\ last' = Call("set_state", NotAStr, state, r.exc)
    /\ UNCHANGED <<streak, errBase, errRun, rejected, hist>>
    /\ UNCHANGED concVars
    /\ UNCHANGED otherVars

\* lock.increase_failed_attempts()
CallIncreaseFailedAttempts ==
    /\ lock.made
    /\ lock.failed_attempts < MaxCounter
    /\ lock' = increase_failed_attempts(lock)
    /\ last' = Call("increase_failed_attempts", NotAStr, NotAState, "none")
    /\ UNCHANGED <<streak, errBase, errRun, rejected, hist>>
    /\ UNCHANGED concVars
    /\ UNCHANGED otherVars

\* lock.reset_failed_attempts()
CallResetFailedAttempts ==
    /\ lock.made
    /\ lock' = reset_failed_attempts(lock)
    /\ last' = Call("reset_failed_attempts", NotAStr, NotAState, "none")
    /\ UNCHANGED <<streak, errBase, errRun, rejected, hist>>
    /\ UNCHANGED concVars
    /\ UNCHANGED otherVars

\* lock.is_limit_exceeded()
CallIsLimitExceeded ==
    /\ lock.made
    /\ lock' = lock
    /\ last' = [Call("is_limit_exceeded", NotAStr, NotAState, "none")
                  EXCEPT !.out = <<IF is_limit_exceeded(lock) THEN "True" ELSE "False">>]
    /\ UNCHANGED <<streak, errBase, errRun, rejected, hist>>
    /\ UNCHANGED concVars
    /\ UNCHANGED otherVars

\* lock.enter_code(code), while the counter is below the bound of the model
CallEnterCode ==
    /\ lock.made
    /\ lock.failed_attempts < MaxCounter
    /\ \E code \in CallerCodes : EnterCodeOf(code)
    /\ UNCHANGED hist
    /\ UNCHANGED concVars
    /\ UNCHANGED otherVars

NextCaller ==
    \/ CallEnterCode
    \/ CallSetState
    \/ CallIncreaseFailedAttempts
    \/ CallResetFailedAttempts
    \/ CallIsLimitExceeded

SpecCaller == InitCaller /\ [][NextCaller]_vars

----------------------------------------------------------------------------
(* Two threads calling enter_code on one lock.  A call is the sequence of the *)
(* reads and writes of Lock.__state and Lock.__failed_attempts that           *)
(* enter_code and the on_code_entered it dispatches to perform, one step     *)
(* each; a thread keeps running the method of the state object it read at    *)
(* the dispatch.  With mutexed, a call runs from its first step to its last  *)
(* holding one mutex.                                                        *)

ConcCodes == {MainPrimary, MainSupercode, Str(Rep("0", 8)), Str(<<" ">>)}

ghostVars == <<last, streak, errBase, errRun, rejected, hist>>

InitConc ==
    /\ lock = Lock_init(MainPrimary, MainSupercode, NewState("LockedState")).lock
    /\ last = [op |-> "init", code |-> MainPrimary, supercode |-> MainSupercode,
               state |-> NewState("LockedState"), pre |-> NoLock, exc |-> "none", out |-> <<>>]
    /\ streak = <<>>
    /\ errBase = NoLock
    /\ errRun = 0
    /\ rejected = 0
    /\ hist = <<>>
    /\ thr = [t \in Threads |-> Idle]
    /\ base = NoLock
    /\ mutexed \in BOOLEAN
    /\ holder = 0
    /\ rounds = 0
    /\ NoOthers

AllAt(pc) == \A t \in Threads : thr[t].pc = pc

\* the callers' mutex: a call may begin when it is free, takes it as it begins
\* and gives it back as it ends
MutexFree == mutexed => holder = 0
MutexTakenBy(t) == IF mutexed THEN t ELSE holder
MutexAfter(pc) == IF pc = "done" THEN 0 ELSE holder

\* thread t goes on to pc
Goto(t, pc) ==
    /\ thr' = [thr EXCEPT ![t].pc = pc]
    /\ holder' = MutexAfter(pc)

\* both threads are given a code to enter
StartRound ==
    /\ AllAt("idle") \/ AllAt("done")
    /\ rounds < MaxRounds
    /\ rounds' = rounds + 1
    /\ base' = lock
    /\ \E c1 \in ConcCodes, c2 \in ConcCodes :
          thr' = [t \in Threads |->
                     [pc |-> "call", code |-> (IF t = 1 THEN c1 ELSE c2),
                      status |-> WRONGCODE, tmp |-> 0]]
    /\ UNCHANGED <<lock, mutexed, holder, ghostVars, otherVars>>

\* enter_code, lines 124-128: the checks of the argument, and _check_status
ThreadCall(t) ==
    /\ thr[t].pc = "call"
    /\ MutexFree
    /\ IF ~isinstance_str(thr[t].code) \/ ~truthy(strip(thr[t].code.chars))
       THEN /\ thr' = [thr EXCEPT ![t].pc = "done"]
            /\ holder' = holder
       ELSE /\ thr' = [thr EXCEPT ![t].pc = "dispatch",
                                  ![t].status = _check_status(lock, thr[t].code)]
            /\ holder' = MutexTakenBy(t)
    /\ UNCHANGED <<lock, base, mutexed, rounds, ghostVars, otherVars>>

\* enter_code, line 129: self.__state is read and its on_code_entered begins
ThreadDispatch(t) ==
    /\ thr[t].pc = "dispatch"
    /\ LET cls == lock.state.cls
           status == thr[t].status
       IN  Goto(t, CASE cls = "LockedState" ->
                          IF status = CORRECTCODE THEN "locked_reset" ELSE "locked_read"
                     [] cls = "UnlockedState" ->
                          IF status = CORRECTCODE THEN "unlocked_set" ELSE "done"
                     [] cls = "ErrorState" ->
                          IF status = SUPERCODE THEN "error_reset" ELSE "done")
    /\ UNCHANGED <<lock, base, mutexed, rounds, ghostVars, otherVars>>

\* LockedState.on_code_entered, line 192
ThreadLockedReset(t) ==
    /\ thr[t].pc = "locked_reset"
    /\ lock' = reset_failed_attempts(lock)
    /\ Goto(t, "locked_unlock")
    /\ UNCHANGED <<base, mutexed, rounds, ghostVars, otherVars>>

\* LockedState.on_code_entered, line 193
ThreadLockedUnlock(t) ==
    /\ thr[t].pc = "locked_unlock"
    /\ lock' = set_state(lock, NewState("UnlockedState")).lock
    /\ Goto(t, "done")
    /\ UNCHANGED <<base, mutexed, rounds, ghostVars, otherVars>>

\* increase_failed_attempts, line 157: the read of self.__failed_attempts += 1
ThreadLockedRead(t) ==
    /\ thr[t].pc = "locked_read"
    /\ thr' = [thr EXCEPT ![t].pc = "locked_write", ![t].tmp = lock.failed_attempts]
    /\ UNCHANGED <<lock, base, mutexed, holder, rounds, ghostVars, otherVars>>

\* increase_failed_attempts, line 157: the write of self.__failed_attempts += 1
ThreadLockedWrite(t) ==
    /\ thr[t].pc = "locked_write"
    /\ lock' = increase_failed_attempts([lock EXCEPT !.failed_attempts = thr[t].tmp])
    /\ Goto(t, "locked_check")
    /\ UNCHANGED <<base, mutexed, rounds, ghostVars, otherVars>>

\* LockedState.on_code_entered, line 197
ThreadLockedCheck(t) ==
    /\ thr[t].pc = "locked_check"
    /\ Goto(t, IF is_limit_exceeded(lock) THEN "locked_error" ELSE "done")
    /\ UNCHANGED <<lock, base, mutexed, rounds, ghostVars, otherVars>>

\* LockedState.on_code_entered, line 199
ThreadLockedError(t) ==
    /\ thr[t].pc = "locked_error"
    /\ lock' = set_state(lock, NewState("ErrorState")).lock
    /\ Goto(t, "done")
    /\ UNCHANGED <<base, mutexed, rounds, ghostVars, otherVars>>

\* UnlockedState.on_code_entered, line 218
ThreadUnlockedSet(t) ==
    /\ thr[t].pc = "unlocked_set"
    /\ lock' = set_state(lock, NewState("LockedState")).lock
    /\ Goto(t, "done")
    /\ UNCHANGED <<base, mutexed, rounds, ghostVars, otherVars>>

\* ErrorState.on_code_entered, line 239
ThreadErrorReset(t) ==
    /\ thr[t].pc = "error_reset"
    /\ lock' = reset_failed_attempts(lock)
    /\ Goto(t, "error_set")
    /\ UNCHANGED <<base, mutexed, rounds, ghostVars, otherVars>>

\* ErrorState.on_code_entered, line 240
ThreadErrorSet(t) ==
    /\ thr[t].pc = "error_set"
    /\ lock' = set_state(lock, NewState("LockedState")).lock
    /\ Goto(t, "done")
    /\ UNCHANGED <<base, mutexed, rounds, ghostVars, otherVars>>

NextConc ==
    \/ StartRound
    \/ \E t \in Threads : ThreadCall(t)
    \/ \E t \in Threads : ThreadDispatch(t)
    \/ \E t \in Threads : ThreadLockedReset(t)
    \/ \E t \in Threads : ThreadLockedUnlock(t)
    \/ \E t \in Threads : ThreadLockedRead(t)
    \/ \E t \in Threads : ThreadLockedWrite(t)
    \/ \E t \in Threads : ThreadLockedCheck(t)
    \/ \E t \in Threads : ThreadLockedError(t)
    \/ \E t \in Threads : ThreadUnlockedSet(t)
    \/ \E t \in Threads : ThreadErrorReset(t)
    \/ \E t \in Threads : ThreadErrorSet(t)

SpecConc == InitConc /\ [][NextConc]_vars

----------------------------------------------------------------------------
(* Vocabulary of the properties *)

\* v matches ^[0-9]{8,12}$
MatchesFormat(v) ==
    /\ isinstance_str(v)
    /\ Len(v.chars) \in 8..12
    /\ \A i \in 1..Len(v.chars) : v.chars[i] \in AsciiDigits

Entered == last.op = "enter_code"
Raised == last.exc # "none"

\* the active state and the counter of a lock
StateOf(lk) == lk.state.cls
CounterOf(lk) == lk.failed_attempts

\* the last call was enter_code, made in state cls
EnteredIn(cls) == Entered /\ StateOf(last.pre) = cls

\* the entered values that enter_code passes on to the active state and that
\* are neither secret of lk
WrongEntries(lk) ==
    {w \in CodeArgs : /\ enter_code(lk, w).exc = "none"
                      /\ w # lk.code
                      /\ w # lk.supercode}

\* the classification of an entered value against the secrets of lk
Classify(lk, v) ==
    IF v = lk.code THEN "Correct" ELSE IF v = lk.supercode THEN "Super" ELSE "Wrong"

\* the transition table: the state and the counter that follow state st and
\* counter c when a code of classification k is entered
TableRow(st, c, k) ==
    CASE st = "LockedState" ->
            IF k = "Correct" THEN <<"UnlockedState", 0>>
            ELSE IF c + 1 >= 3 THEN <<"ErrorState", c + 1>>
            ELSE <<"LockedState", c + 1>>
      [] st = "UnlockedState" ->
            IF k = "Correct" THEN <<"LockedState", c>> ELSE <<"UnlockedState", c>>
      [] st = "ErrorState" ->
            IF k = "Super" THEN <<"LockedState", 0>> ELSE <<"ErrorState", c>>

\* the classifications of the codes recorded in hist; an entry that enter_code
\* refuses with an exception has none
HistKinds ==
    [i \in 1..Len(hist) |->
        IF enter_code(lock, hist[i]).exc # "none" THEN "Raises" ELSE Classify(lock, hist[i])]

----------------------------------------------------------------------------
(* C1 *)

\* C1: enter_code with a code that does not match ^[0-9]{8,12}$ raises an input
\* error and leaves the lock state and the failed-attempt counter unchanged, in
\* every state and for every counter value.
C1_MalformedEntryIsRejected ==
    (Entered /\ ~MatchesFormat(last.code)) =>
        /\ last.exc \in {"TypeError", "ValueError"}
        /\ StateOf(lock) = StateOf(last.pre)
        /\ CounterOf(lock) = CounterOf(last.pre)

----------------------------------------------------------------------------
(* C2 *)

\* C2: whenever the lock is Locked its counter is in 0 .. MAX_FAILED_ATTEMPTS - 1,
\* and a call that brings the counter to MAX_FAILED_ATTEMPTS ends in Error.
C2_LockedCounterBelowMax ==
    /\ (lock.made /\ StateOf(lock) = "LockedState") =>
           (0 <= CounterOf(lock) /\ CounterOf(lock) < _max_failed_attempts)
    /\ (EnteredIn("LockedState") /\ CounterOf(lock) = _max_failed_attempts) =>
           StateOf(lock) = "ErrorState"

\* the call that brought the counter from 2 to 3 has ended in Error
C2_Witness ==
    /\ EnteredIn("LockedState")
    /\ CounterOf(last.pre) = 2
    /\ CounterOf(lock) = 3
    /\ StateOf(lock) = "ErrorState"

----------------------------------------------------------------------------
(* C3 *)

\* C3: from Locked with counter 0, three entries in a row of codes that are not
\* the primary code give Locked/1, then Locked/2, then Error/3.
C3_ThreeRejectedEntries ==
    /\ Len(streak) <= 3
    /\ \A i \in 1..Len(streak) :
          streak[i] = <<(IF i < 3 THEN "LockedState" ELSE "ErrorState"), i>>

\* three such entries in a row have been made
C3_Witness == Len(streak) = 3 /\ Post(lock) = <<"ErrorState", 3>>

----------------------------------------------------------------------------
(* C4 *)

\* C4: from Error, enter_code with the supercode gives Locked with counter 0;
\* with any other code, the primary code included, the lock stays in Error.
C4_ErrorLeftOnlyBySupercode ==
    EnteredIn("ErrorState") =>
        IF last.code = last.pre.supercode
        THEN StateOf(lock) = "LockedState" /\ CounterOf(lock) = 0
        ELSE StateOf(lock) = "ErrorState"

\* a lockout has been cleared with the supercode
C4_Witness ==
    /\ EnteredIn("ErrorState")
    /\ CounterOf(last.pre) = 3
    /\ last.code = last.pre.supercode
    /\ Post(lock) = <<"LockedState", 0>>

----------------------------------------------------------------------------
(* C5 *)

\* C5: from Locked with any counter in 0..2, enter_code with the primary code
\* gives Unlocked with counter 0.
C5_PrimaryUnlocks ==
    (EnteredIn("LockedState") /\ CounterOf(last.pre) \in 0..2 /\ last.code = last.pre.code) =>
        Post(lock) = <<"UnlockedState", 0>>

\* the primary code was entered after two rejected codes
C5_Witness ==
    /\ EnteredIn("LockedState")
    /\ CounterOf(last.pre) = 2
    /\ last.code = last.pre.code
    /\ StateOf(lock) = "UnlockedState"

----------------------------------------------------------------------------
(* C6 *)

\* C6: from Unlocked, the primary code gives Locked, any other code of valid
\* format (a wrong code or the supercode) leaves the lock Unlocked, and the
\* counter is unchanged either way.
C6_UnlockedTransitions ==
    (EnteredIn("UnlockedState") /\ MatchesFormat(last.code)) =>
        /\ StateOf(lock) = (IF last.code = last.pre.code THEN "LockedState" ELSE "UnlockedState")
        /\ CounterOf(lock) = CounterOf(last.pre)

\* the supercode was entered while Unlocked
C6_Witness ==
    /\ EnteredIn("UnlockedState")
    /\ MatchesFormat(last.code)
    /\ last.code = last.pre.supercode
    /\ StateOf(lock) = "UnlockedState"

----------------------------------------------------------------------------
(* C7 *)

\* C7: while Locked, the supercode is handled exactly as a wrong code is: the
\* same resulting state, counter and messages for every counter value; the
\* counter goes up by one (Error when it reaches 3), and the supercode never
\* unlocks the lock nor resets its counter.
C7_SupercodeCountsWhileLocked ==
    /\ (lock.made /\ StateOf(lock) = "LockedState") =>
           \A w \in WrongEntries(lock) :
               enter_code(lock, lock.supercode) = enter_code(lock, w)
    /\ (EnteredIn("LockedState") /\ last.code = last.pre.supercode) =>
           /\ CounterOf(lock) = CounterOf(last.pre) + 1
           /\ StateOf(lock) = (IF CounterOf(lock) >= 3 THEN "ErrorState" ELSE "LockedState")
           /\ last.out[1] = "Incorrect code. Lock remains closed."

\* the supercode was entered while Locked, and locked the lock out
C7_Witness ==
    /\ EnteredIn("LockedState")
    /\ last.code = last.pre.supercode
    /\ WrongEntries(last.pre) # {}
    /\ Post(lock) = <<"ErrorState", 3>>

----------------------------------------------------------------------------
(* C8 *)

\* C8: constructing a lock with the primary code equal to the supercode
\* fails, and no lock is created.
C8_EqualSecretsRefused ==
    (last.op = "init" /\ last.code = last.supercode) => (Raised /\ ~lock.made)

\* construction was tried with one well-formed code as both secrets
C8_Witness ==
    /\ last.op = "init"
    /\ last.code = last.supercode
    /\ MatchesFormat(last.code)
    /\ isinstance_LockState(last.state)
    /\ last.exc = "ValueError"

----------------------------------------------------------------------------
(* C9 *)

\* C9: the format check accepts a code if and only if it is made of decimal
\* digits only and is 8 to 12 long, and construction fails whenever the
\* primary code or the supercode fails that check: a construction succeeds
\* only with two secrets of that form, and with two different secrets of that
\* form and a LockState it does succeed.
C9_FormatCheck ==
    last.op = "init" =>
        /\ lock.made => (MatchesFormat(last.code) /\ MatchesFormat(last.supercode))
        /\ ~lock.made => Raised
        /\ (/\ MatchesFormat(last.code)
            /\ MatchesFormat(last.supercode)
            /\ last.code # last.supercode
            /\ isinstance_LockState(last.state)) => lock.made

----------------------------------------------------------------------------
(* C10 *)

\* C10: n >= 1 codes that are not the supercode, submitted in a row while the
\* lock is in Error, leave the state (Error) and the counter as they were
\* before the first of them.
C10_ErrorIsAbsorbing ==
    errRun >= 1 =>
        /\ StateOf(errBase) = "ErrorState"
        /\ StateOf(lock) = "ErrorState"
        /\ CounterOf(lock) = CounterOf(errBase)

\* a full run of such codes was submitted after a lockout, the last one being the primary code
C10_Witness ==
    /\ errRun = MaxErrRun
    /\ EnteredIn("ErrorState")
    /\ last.code = last.pre.code
    /\ CounterOf(lock) = 3

----------------------------------------------------------------------------
(* C11 *)

\* C11: a call brings the lock into Error exactly when it is the third entry
\* refused while Locked since the last unlock (or recovery); an unlock between
\* refused entries restarts the count, so wrong, wrong, primary, primary, wrong
\* leaves the lock Locked with counter 1; entries made while Unlocked count
\* for nothing.
C11_LockoutAfterThreeConsecutive ==
    /\ Entered =>
          ((StateOf(lock) = "ErrorState" /\ StateOf(last.pre) # "ErrorState")
             <=> (/\ StateOf(last.pre) = "LockedState"
                  /\ ~Raised
                  /\ last.code # last.pre.code
                  /\ rejected = 3))
    /\ HistKinds = <<"Wrong", "Wrong", "Correct", "Correct", "Wrong">> =>
          Post(lock) = <<"LockedState", 1>>
    /\ EnteredIn("UnlockedState") =>
          (StateOf(lock) # "ErrorState" /\ CounterOf(lock) = CounterOf(last.pre))

\* wrong, wrong, primary, primary, wrong has been entered
C11_Witness ==
    /\ HistKinds = <<"Wrong", "Wrong", "Correct", "Correct", "Wrong">>
    /\ rejected = 1
    /\ Post(lock) = <<"LockedState", 1>>

----------------------------------------------------------------------------
(* C12 *)

\* C12: every enter_code call either applies one complete row of the
\* transition table, state and counter both, or raises and leaves state and
\* counter as they were.
C12_AllOrNothing ==
    Entered =>
        IF Raised
        THEN Post(lock) = Post(last.pre)
        ELSE Post(lock) = TableRow(StateOf(last.pre), CounterOf(last.pre),
                                   Classify(last.pre, last.code))

\* both halves of a row were applied: the counter was reset and the state changed
C12_Witness ==
    /\ EnteredIn("LockedState")
    /\ ~Raised
    /\ Post(last.pre) = <<"LockedState", 2>>
    /\ Post(lock) = <<"UnlockedState", 0>>

----------------------------------------------------------------------------
(* C13 *)

\* C13: a caller changes the state and the counter of a lock through
\* enter_code only: a call of enter_code applies a row of the transition table
\* or nothing, and no other call open to a caller (set_state,
\* increase_failed_attempts, reset_failed_attempts) changes either.
C13_OnlyEnterCodeChangesLock ==
    (lock.made /\ last.op # "init") =>
        IF Entered
        THEN \/ Post(lock) = Post(last.pre)
             \/ Post(lock) = TableRow(StateOf(last.pre), CounterOf(last.pre),
                                      Classify(last.pre, last.code))
        ELSE Post(lock) = Post(last.pre)

----------------------------------------------------------------------------
(* C14 *)

\* C14: in every state, enter_code with a code of 8 to 12 digits that is
\* neither secret does not fail: the code is classified Wrong and the Wrong
\* row of the transition table is applied.
C14_WrongCodeIsNoError ==
    (/\ Entered
     /\ MatchesFormat(last.code)
     /\ last.code # last.pre.code
     /\ last.code # last.pre.supercode) =>
        /\ ~Raised
        /\ _check_status(last.pre, last.code) = WRONGCODE
        /\ Post(lock) = TableRow(StateOf(last.pre), CounterOf(last.pre), "Wrong")
        /\ last.out # <<>>

\* a well-formed wrong code was entered during a lockout
C14_Witness ==
    /\ EnteredIn("ErrorState")
    /\ MatchesFormat(last.code)
    /\ last.code # last.pre.code
    /\ last.code # last.pre.supercode
    /\ last.out = <<"Incorrect supercode. Lock remains in error state.">>

----------------------------------------------------------------------------
(* C15 *)

\* the codes of the worked example, and the state and counter after each
ExampleEntries ==
    <<Str(Rep("0", 8)), Str(Rep("1", 8)), Str(Rep("2", 8)), ExamplePrimary, ExampleSupercode>>

ExampleOutcomes ==
    <<(<<"LockedState", 1>>), (<<"LockedState", 2>>), (<<"ErrorState", 3>>),
      (<<"ErrorState", 3>>), (<<"LockedState", 0>>)>>

\* C15: on the lock constructed with "12345678", "87654321" and Locked,
\* entering "00000000", "11111111", "22222222", "12345678", "87654321" gives
\* Locked/1, Locked/2, Error/3, Error (still), Locked/0.
C15_ExampleTrace ==
    /\ lock.code = ExamplePrimary /\ lock.supercode = ExampleSupercode
    /\ \A k \in 1..Len(ExampleEntries) :
          hist = SubSeq(ExampleEntries, 1, k) => Post(lock) = ExampleOutcomes[k]

\* the whole example has been entered
C15_Witness == hist = ExampleEntries /\ Post(lock) = <<"LockedState", 0>>

----------------------------------------------------------------------------
(* C16 *)

\* the state and counter that the two calls of the current round leave when
\* one runs wholly before the other, in either order
SerialOutcomes ==
    {Post(enter_code(enter_code(base, thr[a].code).lock, thr[b].code).lock) :
        <<a, b>> \in {<<1, 2>>, <<2, 1>>}}

\* C16: two enter_code calls interleaved step by step can end in a state and
\* counter that neither serial order gives; when every call runs under one
\* mutex, the outcome of two calls is that of one of the serial orders, and
\* between calls a Locked lock has a counter below MAX_FAILED_ATTEMPTS.
C16_MutexMakesCallsSerial ==
    mutexed =>
        /\ AllAt("done") => Post(lock) \in SerialOutcomes
        /\ (holder = 0 /\ StateOf(lock) = "LockedState") =>
              CounterOf(lock) < _max_failed_attempts

\* without the mutex: from Locked/2, a wrong code and the primary code
\* entered together have left the lock in Error with counter 0, which no
\* serial order of the two calls gives
C16_Witness ==
    /\ ~mutexed
    /\ AllAt("done")
    /\ Post(base) = <<"LockedState", 2>>
    /\ Post(lock) = <<"ErrorState", 0>>
    /\ Post(lock) \notin SerialOutcomes

----------------------------------------------------------------------------
(* C17 *)

\* C17: a call brings the lock into Error only if it starts in Locked and its
\* refused code brings the counter to 3; no call that starts in Unlocked ends
\* in Error; a call takes the lock out of Error only if its code is the
\* supercode, and then the lock is Locked, never Unlocked.
C17_ErrorEnteredAndLeft ==
    Entered =>
        /\ (StateOf(last.pre) # "ErrorState" /\ StateOf(lock) = "ErrorState") =>
              /\ StateOf(last.pre) = "LockedState"
              /\ last.code # last.pre.code
              /\ CounterOf(last.pre) = 2
              /\ CounterOf(lock) = 3
        /\ StateOf(last.pre) = "UnlockedState" => StateOf(lock) # "ErrorState"
        /\ (StateOf(last.pre) = "ErrorState" /\ StateOf(lock) # "ErrorState") =>
              /\ last.code = last.pre.supercode
              /\ StateOf(lock) = "LockedState"

\* a lockout brought about by the supercode entered while Locked
C17_Witness ==
    /\ EnteredIn("LockedState")
    /\ last.code = last.pre.supercode
    /\ CounterOf(last.pre) = 2
    /\ StateOf(lock) = "ErrorState"

----------------------------------------------------------------------------
(* C18 *)

\* the last call was an entry refused while Locked
RefusedWhileLocked ==
    EnteredIn("LockedState") /\ ~Raised /\ last.code # last.pre.code

\* the last call was an unlock (Locked, primary code) or a recovery (Error, supercode)
UnlockOrRecovery ==
    \/ EnteredIn("LockedState") /\ ~Raised /\ last.code = last.pre.code
    \/ EnteredIn("ErrorState") /\ ~Raised /\ last.code = last.pre.supercode

\* C18: over one enter_code call the counter goes up by exactly 1 if and only
\* if the call starts in Locked and its code is refused; it is set to 0 if and
\* only if the call is an unlock or a recovery; in every other call (all those
\* that start in Unlocked, and those in Error without the supercode) it is
\* unchanged.
C18_CounterChanges ==
    Entered =>
        /\ (CounterOf(lock) = CounterOf(last.pre) + 1) <=> RefusedWhileLocked
        /\ UnlockOrRecovery => CounterOf(lock) = 0
        /\ (CounterOf(lock) = 0 /\ CounterOf(last.pre) # 0) => UnlockOrRecovery
        /\ (~RefusedWhileLocked /\ ~UnlockOrRecovery) => CounterOf(lock) = CounterOf(last.pre)

\* a recovery has set the counter from 3 to 0
C18_Witness ==
    /\ EnteredIn("ErrorState")
    /\ UnlockOrRecovery
    /\ CounterOf(last.pre) = 3
    /\ CounterOf(lock) = 0

----------------------------------------------------------------------------
(* C19 *)

\* C19: an entered code is Correct iff it is equal, character for character,
\* to the primary code, Super iff it is equal to the supercode, Wrong
\* otherwise; no code is both Correct and Super; and the lock answers an
\* entry according to that classification.
C19_ClassificationByEquality ==
    /\ lock.made =>
          \A v \in CodeArgs :
              isinstance_str(v) =>
                  /\ _check_status(lock, v) = CORRECTCODE <=> v = lock.code
                  /\ _check_status(lock, v) = SUPERCODE <=> v = lock.supercode
                  /\ _check_status(lock, v) = WRONGCODE <=> (v # lock.code /\ v # lock.supercode)
                  /\ ~(v = lock.code /\ v = lock.supercode)
    /\ (EnteredIn("UnlockedState") /\ ~Raised) =>
          (last.out = <<"Lock is locked">> <=> last.code = last.pre.code)
    /\ (EnteredIn("ErrorState") /\ ~Raised) =>
          (last.out = <<"Lock is locked. Use code to unlock.">> <=> last.code = last.pre.supercode)
    /\ (EnteredIn("LockedState") /\ ~Raised) =>
          (last.out = <<"Lock is unlocked">> <=> last.code = last.pre.code)

\* the primary code with a space before it was entered, and was not taken for the primary code
C19_Witness ==
    /\ EnteredIn("UnlockedState")
    /\ last.code = Str(<<" ">> \o last.pre.code.chars)
    /\ last.out = <<"Incorrect code. Lock remains unlocked.">>

----------------------------------------------------------------------------
(* C20 *)

\* C20: with two different secrets of valid form and any of the three states
\* as initial state, construction succeeds, the given state is the active
\* state and the counter is 0.
C20_AnyInitialState ==
    (/\ last.op = "init"
     /\ MatchesFormat(last.code)
     /\ MatchesFormat(last.supercode)
     /\ last.code # last.supercode
     /\ isinstance_LockState(last.state)) =>
        /\ ~Raised
        /\ lock.made
        /\ lock.code = last.code
        /\ lock.supercode = last.supercode
        /\ StateOf(lock) = last.state.cls
        /\ ~_check_context_raises(lock.state)
        /\ CounterOf(lock) = 0

\* a lock was constructed in ErrorState
C20_Witness ==
    /\ last.op = "init"
    /\ last.state = NewState("ErrorState")
    /\ MatchesFormat(last.code)
    /\ MatchesFormat(last.supercode)
    /\ lock.made
    /\ Post(lock) = <<"ErrorState", 0>>

----------------------------------------------------------------------------
(* C21 *)

\* C21: no enter_code call changes the primary code or the supercode, so the
\* two secrets of a constructed lock differ in every reachable state.
C21_SecretsNeverChange ==
    lock.made =>
        /\ isinstance_str(lock.code)
        /\ isinstance_str(lock.supercode)
        /\ lock.code # lock.supercode
        /\ Entered => /\ lock.code = last.pre.code
                      /\ lock.supercode = last.pre.supercode

\* a recovery, after a lockout, has changed the state and the counter and left the secrets
C21_Witness ==
    /\ EnteredIn("ErrorState")
    /\ CounterOf(last.pre) = 3
    /\ Post(lock) = <<"LockedState", 0>>
    /\ lock.code = last.pre.code
    /\ lock.supercode = last.pre.supercode

----------------------------------------------------------------------------
(* C22 *)

\* the outcome messages of the transition table, as the lock words them
ReportOfRow(st, c, k) ==
    CASE st = "LockedState" ->
            IF k = "Correct" THEN <<"Lock is unlocked">>
            ELSE IF c + 1 >= 3
                 THEN <<"Incorrect code. Lock remains closed.",
                        "Lock is in error state. Supercode required to reset.">>
            ELSE <<"Incorrect code. Lock remains closed.">>
      [] st = "UnlockedState" ->
            IF k = "Correct" THEN <<"Lock is locked">>
            ELSE <<"Incorrect code. Lock remains unlocked.">>
      [] st = "ErrorState" ->
            IF k = "Super" THEN <<"Lock is locked. Use code to unlock.">>
            ELSE <<"Incorrect supercode. Lock remains in error state.">>

\* the state a message says the lock is in
StateNamedBy(msg) ==
    CASE msg = "Lock is unlocked" -> "UnlockedState"
      [] msg = "Incorrect code. Lock remains closed." -> "LockedState"
      [] msg = "Lock is in error state. Supercode required to reset." -> "ErrorState"
      [] msg = "Lock is locked" -> "LockedState"
      [] msg = "Incorrect code. Lock remains unlocked." -> "UnlockedState"
      [] msg = "Lock is locked. Use code to unlock." -> "LockedState"
      [] msg = "Incorrect supercode. Lock remains in error state." -> "ErrorState"
      [] OTHER -> "none"

\* the last call was the entry that locked the lock out
TriggeredLockout ==
    EnteredIn("LockedState") /\ ~Raised /\ StateOf(lock) = "ErrorState"

\* C22: every enter_code call that applies a transition reports the outcome
\* message of its table row, and the last message of the report names the
\* resulting state; the call that triggers the lockout reports the incorrect
\* code first and the lockout second.
C22_ReportOfEachRow ==
    (Entered /\ ~Raised) =>
        /\ last.out = ReportOfRow(StateOf(last.pre), CounterOf(last.pre),
                                  Classify(last.pre, last.code))
        /\ Len(last.out) >= 1
        /\ StateNamedBy(last.out[Len(last.out)]) = StateOf(lock)
        /\ TriggeredLockout <=>
              last.out = <<"Incorrect code. Lock remains closed.",
                           "Lock is in error state. Supercode required to reset.">>

\* the third refused entry was reported as incorrect, then as the lockout
C22_Witness ==
    /\ TriggeredLockout
    /\ CounterOf(last.pre) = 2
    /\ Len(last.out) = 2
    /\ last.out[1] = "Incorrect code. Lock remains closed."
    /\ last.out[2] = "Lock is in error state. Supercode required to reset."

----------------------------------------------------------------------------
(* C23 *)

\* the last call brought the lock into Locked from another state
EnteredLocked ==
    Entered /\ StateOf(last.pre) # "LockedState" /\ StateOf(lock) = "LockedState"

\* C23: the counter is 0 in every reachable Unlocked state, and whenever the
\* lock enters Locked from another state (relock from Unlocked, recovery from
\* Error), so that every new Locked period has the full three attempts.
C23_FreshLockedPeriod ==
    lock.made =>
        /\ StateOf(lock) = "UnlockedState" => CounterOf(lock) = 0
        /\ EnteredLocked => CounterOf(lock) = 0
        /\ EnteredLocked => _max_failed_attempts - CounterOf(lock) = 3

\* the lock was locked again from Unlocked, with the counter at 0
C23_Witness ==
    /\ EnteredIn("UnlockedState")
    /\ last.code = last.pre.code
    /\ EnteredLocked
    /\ CounterOf(lock) = 0

----------------------------------------------------------------------------
(* C24 *)

\* the runs of locks that were constructed in LockedState or in UnlockedState
InitLockedOrUnlocked ==
    /\ NoThreads
    /\ NoOthers
    /\ \E code \in SecretArgs, supercode \in SecretArgs,
          state \in {NewState("LockedState"), NewState("UnlockedState")} :
          LET r == Lock_init(code, supercode, state)
          IN  /\ r.exc = "none"
              /\ lock = r.lock
              /\ last = [op |-> "init", code |-> code, supercode |-> supercode,
                         state |-> state, pre |-> NoLock, exc |-> r.exc, out |-> r.out]
    /\ streak = <<>>
    /\ errBase = NoLock
    /\ errRun = 0
    /\ rejected = 0
    /\ hist = <<>>

NextLockedOrUnlocked == EnterCode

SpecLockedOrUnlocked == InitLockedOrUnlocked /\ [][NextLockedOrUnlocked]_vars

\* C24: for a lock constructed in Locked or Unlocked, in every state reachable
\* by enter_code calls the counter is in 0..3, and it is 3 if and only if the
\* state is Error.
C24_CounterIsMaxIffError ==
    /\ lock.made
    /\ CounterOf(lock) \in 0..3
    /\ CounterOf(lock) = 3 <=> StateOf(lock) = "ErrorState"

\* the lock is locked out after three refused entries, with the counter at 3
C24_Witness ==
    /\ TriggeredLockout
    /\ rejected = 3
    /\ Post(lock) = <<"ErrorState", 3>>

----------------------------------------------------------------------------
(* C25 *)

\* what a holder of both secrets enters to open lk: the supercode if lk is in
\* Error, then the primary code unless lk is open already
AfterSupercodeIfError(lk) ==
    IF StateOf(lk) = "ErrorState" THEN enter_code(lk, lk.supercode).lock ELSE lk
AfterPrimaryUnlessOpen(lk) ==
    IF StateOf(lk) = "UnlockedState" THEN lk ELSE enter_code(lk, lk.code).lock

\* the number of enter_code calls of that way out of lk
CallsToOpen(lk) ==
    (IF StateOf(lk) = "ErrorState" THEN 1 ELSE 0)
    + (IF StateOf(AfterSupercodeIfError(lk)) = "UnlockedState" THEN 0 ELSE 1)

\* C25: no reachable state is a dead end for a holder of both secrets: the
\* supercode, if the lock is in Error, and then the primary code bring the
\* lock to Unlocked, within at most two enter_code calls, and none from
\* Unlocked.
C25_NoDeadEnd ==
    lock.made =>
        /\ StateOf(AfterPrimaryUnlessOpen(AfterSupercodeIfError(lock))) = "UnlockedState"
        /\ CallsToOpen(lock) <= 2
        /\ StateOf(lock) = "UnlockedState" => CallsToOpen(lock) = 0
        /\ (EnteredIn("ErrorState") /\ last.code = last.pre.supercode) =>
              StateOf(lock) = "LockedState"
        /\ (EnteredIn("LockedState") /\ last.code = last.pre.code) =>
              StateOf(lock) = "UnlockedState"

\* the supercode was entered at Error with the counter at 3, and the primary
\* code now opens the lock: two calls from the lockout
C25_Witness ==
    /\ EnteredIn("ErrorState")
    /\ CounterOf(last.pre) = 3
    /\ last.code = last.pre.supercode
    /\ CallsToOpen(last.pre) = 2
    /\ StateOf(lock) = "LockedState"
    /\ StateOf(enter_code(lock, lock.code).lock) = "UnlockedState"

----------------------------------------------------------------------------
(* C26: two Lock objects, and the LockState objects they refer to *)

PeerPrimary == Str(Rep("1", 8))
PeerSupercode == Str(Rep("2", 8))

PrimaryOf(x) == IF x = "A" THEN MainPrimary ELSE PeerPrimary
SupercodeOf(x) == IF x = "A" THEN MainSupercode ELSE PeerSupercode

\* the values entered on either lock: the secrets of both, and a wrong code
PairCodes == {MainPrimary, MainSupercode, PeerPrimary, PeerSupercode, Str(Rep("0", 8))}

InitShared ==
    /\ NoThreads
    /\ NoOthers
    /\ lock = NoLock
    /\ last = NoCall
    /\ streak = <<>>
    /\ errBase = NoLock
    /\ errRun = 0
    /\ rejected = 0
    /\ hist = <<>>

\* the lock that the state object o works on: the one its back-reference names
OwnerOf(o) == heap[o].lock

\* x = Lock(code, supercode, o), where o is a new state object of class cls
\* when no such object was made yet, and else the object made before
PairInit(x, o, cls) ==
    LET st == IF heap[o] = NotAState THEN NewState(cls) ELSE heap[o]
        r == Lock_init(PrimaryOf(x), SupercodeOf(x), st)
    IN  /\ pair' = [pair EXCEPT ![x] = IF r.exc = "none" THEN [r.lock EXCEPT !.state = o]
                                       ELSE NoLock]
        /\ heap' = [heap EXCEPT ![o] = IF r.exc = "none" THEN [st EXCEPT !.lock = x] ELSE st]
        /\ plast' = [op |-> "init", on |-> x, code |-> PrimaryOf(x), pre |-> pair,
                     preheap |-> heap, exc |-> r.exc, out |-> r.out]

\* A is constructed first, with a state object of its own; B is constructed
\* with a state object of its own or with the one A was constructed with
ConstructPair ==
    /\ \E x \in LockNames, y \in LockNames, cls \in StateClasses :
          /\ ~pair[x].made
          /\ x = "B" => pair["A"].made
          /\ y = x \/ heap[InitialObject(y)] # NotAState
          /\ PairInit(x, InitialObject(y), cls)
    /\ UNCHANGED <<lock, ghostVars, concVars, bookVars, accountVars>>

\* what x.enter_code works on: the secrets of x, the state object x refers to,
\* and the counter of the lock that object's back-reference names
CallView(x) ==
    LET o == pair[x].state
        t == OwnerOf(o)
    IN  [made |-> TRUE, code |-> pair[x].code, supercode |-> pair[x].supercode,
         state |-> [cls |-> heap[o].cls, lock |-> IF t = "None" THEN "None" ELSE "self"],
         failed_attempts |-> IF t = "None" THEN 0 ELSE pair[t].failed_attempts]

\* x.enter_code(code): the active state object of x handles the code, and
\* changes the lock of its back-reference
PairEnterCodeOf(x, code) ==
    LET o == pair[x].state
        t == OwnerOf(o)
        r == enter_code(CallView(x), code)
        set == r.lock.state.cls # heap[o].cls
    IN  /\ IF r.exc # "none"
           THEN pair' = pair /\ heap' = heap
           ELSE /\ pair' = [pair EXCEPT
                               ![t].failed_attempts = r.lock.failed_attempts,
                               ![t].state = IF set THEN OwnObject(t) ELSE @]
                /\ heap' = IF set
                           THEN [heap EXCEPT ![OwnObject(t)] = [cls |-> r.lock.state.cls,
                                                                lock |-> t]]
                           ELSE heap
        /\ plast' = [op |-> "enter_code", on |-> x, code |-> code, pre |-> pair,
                     preheap |-> heap, exc |-> r.exc, out |-> r.out]

PairEnterCode ==
    /\ \A y \in LockNames : pair[y].made => pair[y].failed_attempts < MaxCounter
    /\ \E x \in LockNames, code \in PairCodes :
          /\ pair[x].made
          /\ PairEnterCodeOf(x, code)
    /\ UNCHANGED <<lock, ghostVars, concVars, bookVars, accountVars>>

NextShared == ConstructPair \/ PairEnterCode

SpecShared == InitShared /\ [][NextShared]_vars

\* C26: an enter_code call on one lock changes only that lock's state and
\* counter: the active state object of a lock always refers back to that
\* lock, also when two locks were constructed with the same state object, so
\* that a code entered on A never unlocks or otherwise changes B.
C26_OnlyTheCalledLockChanges ==
    /\ \A x \in LockNames : pair[x].made => OwnerOf(pair[x].state) = x
    /\ plast.op = "enter_code" =>
          \A y \in LockNames \ {plast.on} :
              /\ pair[y] = plast.pre[y]
              /\ pair[y].made => heap[pair[y].state] = plast.preheap[pair[y].state]

----------------------------------------------------------------------------
(* C27 *)

\* the locks that can be constructed, each put in the state and at the counter of lk
LocksAt(lk) ==
    {[r.lock EXCEPT !.state = lk.state, !.failed_attempts = lk.failed_attempts] :
        r \in {q \in {Lock_init(c, s, NewState("LockedState")) : c \in SecretArgs, s \in SecretArgs} :
                 q.exc = "none"}}

\* C27: the state and the counter that follow an enter_code call, and the
\* messages it emits, are a function of the state and the counter before it
\* and of the classification of the entered code: another code of the same
\* classification, entered from the same state and counter on a lock with
\* these or with other secrets, ends in the same state and counter and emits
\* the same messages.
C27_Determinism ==
    (Entered /\ ~Raised) =>
        \A lk \in LocksAt(last.pre) :
            \A w \in CodeArgs :
                (/\ enter_code(lk, w).exc = "none"
                 /\ Classify(lk, w) = Classify(last.pre, last.code)) =>
                    /\ Post(enter_code(lk, w).lock) = Post(lock)
                    /\ enter_code(lk, w).out = last.out

\* a wrong code was counted at Locked with the counter at 1, as another wrong
\* code would have been
C27_Witness ==
    /\ EnteredIn("LockedState")
    /\ ~Raised
    /\ Classify(last.pre, last.code) = "Wrong"
    /\ Post(last.pre) = <<"LockedState", 1>>
    /\ \E w \in WrongEntries(last.pre) :
          /\ w # last.code
          /\ Post(enter_code(last.pre, w).lock) = Post(lock)
          /\ Post(lock) = <<"LockedState", 2>>

----------------------------------------------------------------------------
(* src/memento.py: ContactBook, ContactBookMemento, History *)

\* Contact(name, number), by value
Contact(name, number) == [type |-> "Contact", name |-> name, number |-> number]
NotAContact == [type |-> "str", name |-> "", number |-> ""]

ContactArgs == {Contact("Ann", "0123456789"), Contact("Bob", "9876543210"), NotAContact}

\* the values passed as index: ints, a bool (an int in Python), and a str
IndexArgs ==
    {[type |-> "int", val |-> i] : i \in -1..MaxContacts}
    \cup {[type |-> "bool", val |-> 1], [type |-> "str", val |-> 0]}

isinstance_int(v) == v.type \in {"int", "bool"}

\* the book, its history and the list objects they refer to
World(ls, bk, snaps) == [lists |-> ls, book |-> bk, snapshots |-> snaps]

\* the outcome of a call: the objects after it, what it returned and raised
Result(w, ret, exc) == [world |-> w, ret |-> ret, exc |-> exc]

\* the list objects that are referred to
Referred(w) == {w.book} \cup {w.snapshots[i] : i \in 1..Len(w.snapshots)}

\* the references held, the book's first, and the place of the first reference to r
References(w) == <<w.book>> \o w.snapshots
FirstReference(w, r) == CHOOSE i \in 1..Len(References(w)) :
                            /\ References(w)[i] = r
                            /\ \A j \in 1..(i - 1) : References(w)[j] # r

\* the name of list object r when the objects are named in the order in which
\* they are referred to
Renamed(w, r) == Cardinality({References(w)[j] : j \in 1..(FirstReference(w, r) - 1)})

\* the objects nothing refers to are given back; an identity tells objects
\* apart and nothing else, so the ones in use are named in the order in which
\* they are referred to
Collect(w) ==
    [lists |-> [i \in ListIds |->
                   IF \E r \in Referred(w) : Renamed(w, r) = i
                   THEN w.lists[CHOOSE r \in Referred(w) : Renamed(w, r) = i]
                   ELSE Free],
     book |-> Renamed(w, w.book),
     snapshots |-> [i \in 1..Len(w.snapshots) |-> Renamed(w, w.snapshots[i])]]

\* a list object not in use
NewList(w) == CHOOSE i \in ListIds \ Referred(w) : \A j \in ListIds \ Referred(w) : i <= j

\* mutant: the list is not copied, the same object is used
deepcopy_sharing(w, src) == [world |-> w, ref |-> src]

\* copy.deepcopy(src): a new list object holding the same contacts
deepcopy(w, src) ==
    LET new == NewList(w)
    IN  [world |-> [w EXCEPT !.lists[new] = w.lists[src]], ref |-> new]

\* ContactBook.add_contact
add_contact(w, contact) ==
    IF contact.type # "Contact" THEN Result(w, "None", "TypeError")
    ELSE Result([w EXCEPT !.lists[w.book] = Append(@, contact)], "None", "none")

\* list.pop(index), for an index in range (counted from 0)
pop(s, index) == SubSeq(s, 1, index) \o SubSeq(s, index + 2, Len(s))

\* ContactBook.remove_contact
remove_contact(w, index) ==
    IF ~isinstance_int(index) THEN Result(w, "None", "TypeError")
    ELSE IF ~(0 <= index.val /\ index.val < Len(w.lists[w.book]))
    THEN Result(w, "None", "IndexError")
    ELSE Result([w EXCEPT !.lists[w.book] = pop(@, index.val)], "None", "none")

\* ContactBookMemento(contacts): the memento is the list object it holds
ContactBookMemento_init(w, contacts) ==
    IF \E i \in 1..Len(w.lists[contacts]) : w.lists[contacts][i].type # "Contact"
    THEN [world |-> w, ref |-> contacts, exc |-> "TypeError"]
    ELSE LET c == deepcopy(w, contacts)
         IN  [world |-> c.world, ref |-> c.ref, exc |-> "none"]

\* ContactBook.save
save(w) == ContactBookMemento_init(w, w.book)

\* ContactBook.restore
restore(w, memento) ==
    LET c == deepcopy(w, memento)
    IN  [c.world EXCEPT !.book = c.ref]

\* mutant: every backup replaces the one before
backup_keeping_one(w) ==
    LET m == save(w)
    IN  IF m.exc # "none" THEN Result(w, "None", m.exc)
        ELSE Result(Collect([m.world EXCEPT !.snapshots = <<m.ref>>]), "None", "none")

\* History.backup
backup(w) ==
    LET m == save(w)
    IN  IF m.exc # "none" THEN Result(w, "None", m.exc)
        ELSE Result(Collect([m.world EXCEPT !.snapshots = Append(@, m.ref)]), "None", "none")

\* mutant: the oldest snapshot is restored
undo_oldest_first(w) ==
    IF w.snapshots # <<>>
    THEN LET memento == w.snapshots[1]
             popped == [w EXCEPT !.snapshots = Tail(@)]
             kept == [popped EXCEPT !.snapshots = <<memento>> \o @]
         IN  Result(Collect([restore(kept, memento) EXCEPT !.snapshots = popped.snapshots]),
                    TRUE, "none")
    ELSE Result(w, FALSE, "none")

\* History.undo: the memento popped stays alive until restore has copied it
undo(w) ==
    IF w.snapshots # <<>>
    THEN LET memento == w.snapshots[Len(w.snapshots)]
             popped == [w EXCEPT !.snapshots = SubSeq(@, 1, Len(@) - 1)]
             kept == [popped EXCEPT !.snapshots = Append(@, memento)]
         IN  Result(Collect([restore(kept, memento) EXCEPT !.snapshots = popped.snapshots]),
                    TRUE, "none")
    ELSE Result(w, FALSE, "none")

TheWorld == World(lists, book, snapshots)

\* the contacts a list object holds
ContactsOf(ref) == lists[ref]

\* the objects after a call, and the record of the call
BookCall(op, r) ==
    /\ lists' = r.world.lists
    /\ book' = r.world.book
    /\ snapshots' = r.world.snapshots
    /\ blast' = [op |-> op, ret |-> r.ret, exc |-> r.exc,
                 pre |-> IF op = "undo" THEN ContactsOf(book) ELSE <<>>,
                 presaved |-> IF op = "undo" THEN saved ELSE <<>>]

InitBook ==
    /\ NoThreads
    /\ NoOthers
    /\ lock = NoLock
    /\ last = NoCall
    /\ streak = <<>>
    /\ errBase = NoLock
    /\ errRun = 0
    /\ rejected = 0
    /\ hist = <<>>

\* book.add_contact(contact)
BookAdd ==
    /\ Len(ContactsOf(book)) < MaxContacts
    /\ \E contact \in ContactArgs : BookCall("add_contact", add_contact(TheWorld, contact))
    /\ UNCHANGED saved
    /\ UNCHANGED <<lock, ghostVars, concVars, sharedVars, accountVars>>

\* book.remove_contact(index)
BookRemove ==
    /\ \E index \in IndexArgs : BookCall("remove_contact", remove_contact(TheWorld, index))
    /\ UNCHANGED saved
    /\ UNCHANGED <<lock, ghostVars, concVars, sharedVars, accountVars>>

\* history.backup()
HistoryBackup ==
    /\ Len(snapshots) < MaxSnapshots
    /\ BookCall("backup", backup(TheWorld))
    /\ saved' = Append(saved, ContactsOf(book))
    /\ UNCHANGED <<lock, ghostVars, concVars, sharedVars, accountVars>>

\* history.undo()
HistoryUndo ==
    /\ BookCall("undo", undo(TheWorld))
    /\ saved' = IF saved = <<>> THEN <<>> ELSE SubSeq(saved, 1, Len(saved) - 1)
    /\ UNCHANGED <<lock, ghostVars, concVars, sharedVars, accountVars>>

NextBook == BookAdd \/ BookRemove \/ HistoryBackup \/ HistoryUndo

SpecBook == InitBook /\ [][NextBook]_vars

----------------------------------------------------------------------------
(* C28 *)

\* C28: the history is a stack of isolated snapshots: every snapshot still
\* holds the contacts the book had at its backup, whatever was added or
\* removed since; there are as many snapshots as backups not yet undone; an
\* undo with snapshots returns True, restores the contacts of the latest
\* backup and leaves the earlier ones; an undo without snapshots returns
\* False and leaves the book as it was.
C28_HistoryIsAStackOfSnapshots ==
    /\ Len(snapshots) = Len(saved)
    /\ \A i \in 1..Len(snapshots) : ContactsOf(snapshots[i]) = saved[i]
    /\ \A i \in 1..Len(snapshots) : snapshots[i] # book
    /\ (blast.op = "undo" /\ blast.presaved # <<>>) =>
          /\ blast.ret = TRUE
          /\ ContactsOf(book) = blast.presaved[Len(blast.presaved)]
          /\ saved = SubSeq(blast.presaved, 1, Len(blast.presaved) - 1)
    /\ (blast.op = "undo" /\ blast.presaved = <<>>) =>
          /\ blast.ret = FALSE
          /\ ContactsOf(book) = blast.pre
          /\ snapshots = <<>>

\* an undo, with two backups made and the book changed since, has restored
\* the contacts of the second backup and kept those of the first
C28_Witness ==
    /\ blast.op = "undo"
    /\ blast.ret = TRUE
    /\ Len(blast.presaved) = 2
    /\ blast.presaved[1] # blast.presaved[2]
    /\ blast.pre # blast.presaved[2]
    /\ ContactsOf(book) = blast.presaved[2]
    /\ Len(snapshots) = 1
    /\ ContactsOf(snapshots[1]) = blast.presaved[1]

----------------------------------------------------------------------------
(* src/command.py: MoneyValidator, BankAccount and the two balance commands. *)
(* An amount is [type, val] with val in thousandths of the unit; the balance *)
(* is in hundredths, the precision it is rounded to after every change.      *)

Int_(n) == [type |-> "int", val |-> n * 1000]
Float_(thousandths) == [type |-> "float", val |-> thousandths]
Bool_(b) == [type |-> "bool", val |-> IF b THEN 1000 ELSE 0]
NotANumber == [type |-> "str", val |-> 0]

\* the amounts tried: 0.004, 0.006, 0.01, 0.014, 0.02, 0.024, 0.0, -0.01, the
\* ints 0 and -1, True (the int 1), False (the int 0), and a str; none is
\* halfway between two hundredths
AmountArgs ==
    {Float_(t) : t \in {4, 6, 10, 14, 20, 24, 0, -10}}
    \cup {Int_(0), Int_(-1), Bool_(TRUE), Bool_(FALSE), NotANumber}

\* isinstance(amount, (int, float)); a bool is an int
isinstance_number(amount) == amount.type \in {"int", "float", "bool"}

\* MoneyValidator.validate_money: what it raises
validate_money(amount) ==
    IF ~isinstance_number(amount) THEN "TypeError"
    ELSE IF amount.val <= 0 THEN "ValueError"
    ELSE "none"

\* round(amount, 2) of an amount that is not halfway between two hundredths:
\* the nearest number of hundredths
round_2(thousandths) == (thousandths + 5) \div 10

\* the outcome of a call on the account: the balance after it, what it raised
Paid(b, exc) == [balance |-> b, exc |-> exc]

\* BankAccount.increase_balance
increase_balance(b, amount) ==
    IF validate_money(amount) # "none" THEN Paid(b, validate_money(amount))
    ELSE Paid(b + round_2(amount.val), "none")

\* BankAccount.decrease_balance
decrease_balance(b, amount) ==
    IF validate_money(amount) # "none" THEN Paid(b, validate_money(amount))
    ELSE IF b < round_2(amount.val) THEN Paid(b, "InsufficientFundsError")
    ELSE Paid(b - round_2(amount.val), "none")

\* IncreaseBalanceCommand(account, amount).execute()
IncreaseBalanceCommand_execute(b, amount) ==
    IF validate_money(amount) # "none" THEN Paid(b, validate_money(amount))
    ELSE increase_balance(b, amount)

\* DecreaseBalanceCommand(account, amount).execute()
DecreaseBalanceCommand_execute(b, amount) ==
    IF validate_money(amount) # "none" THEN Paid(b, validate_money(amount))
    ELSE decrease_balance(b, amount)

\* the balance after a call, and the record of the call
AccountCall(op, amount, r) ==
    /\ balance' = r.balance
    /\ alast' = [op |-> op, amount |-> amount, pre |-> balance, exc |-> r.exc]

InitAccount ==
    /\ NoThreads
    /\ NoOthers
    /\ lock = NoLock
    /\ last = NoCall
    /\ streak = <<>>
    /\ errBase = NoLock
    /\ errRun = 0
    /\ rejected = 0
    /\ hist = <<>>

\* account.increase_balance(amount)
AccountIncrease ==
    /\ balance <= MaxBalance
    /\ \E amount \in AmountArgs :
          AccountCall("increase_balance", amount, increase_balance(balance, amount))
    /\ UNCHANGED <<lock, ghostVars, concVars, sharedVars, bookVars>>

\* account.decrease_balance(amount)
AccountDecrease ==
    /\ \E amount \in AmountArgs :
          AccountCall("decrease_balance", amount, decrease_balance(balance, amount))
    /\ UNCHANGED <<lock, ghostVars, concVars, sharedVars, bookVars>>

\* a deposit command is made and executed
DepositCommand ==
    /\ balance <= MaxBalance
    /\ \E amount \in AmountArgs :
          AccountCall("IncreaseBalanceCommand", amount,
                      IncreaseBalanceCommand_execute(balance, amount))
    /\ UNCHANGED <<lock, ghostVars, concVars, sharedVars, bookVars>>

\* a withdrawal command is made and executed
WithdrawCommand ==
    /\ \E amount \in AmountArgs :
          AccountCall("DecreaseBalanceCommand", amount,
                      DecreaseBalanceCommand_execute(balance, amount))
    /\ UNCHANGED <<lock, ghostVars, concVars, sharedVars, bookVars>>

NextAccount == AccountIncrease \/ AccountDecrease \/ DepositCommand \/ WithdrawCommand

SpecAccount == InitAccount /\ [][NextAccount]_vars

----------------------------------------------------------------------------
(* C29 *)

\* the last call was a withdrawal, made directly or by a command
Withdrawal == alast.op \in {"decrease_balance", "DecreaseBalanceCommand"}

\* the amount of the last call is a number, and exceeds / equals the balance before it
AmountIsNumber == isinstance_number(alast.amount)
AmountExceedsBalance == AmountIsNumber /\ alast.amount.val > alast.pre * 10
AmountEqualsBalance == AmountIsNumber /\ alast.amount.val = alast.pre * 10

\* C29: the balance is never negative; a decrease_balance with an amount
\* greater than the balance raises InsufficientFundsError and leaves the
\* balance unchanged; a withdrawal equal to the balance succeeds and leaves
\* 0; a non-positive amount is rejected by both operations and the balance
\* is unchanged.
C29_BalanceNeverNegative ==
    /\ balance >= 0
    /\ (Withdrawal /\ AmountExceedsBalance) =>
          /\ alast.exc = "InsufficientFundsError"
          /\ balance = alast.pre
    /\ (Withdrawal /\ AmountEqualsBalance /\ alast.pre > 0) =>
          /\ alast.exc = "none"
          /\ balance = 0
    /\ (alast.op # "none" /\ AmountIsNumber /\ alast.amount.val <= 0) =>
          /\ alast.exc = "ValueError"
          /\ balance = alast.pre

====
